---- MODULE Spec2Model ----
(***************************************************************************)
(* Region blur engine of zimage (zimage/ui/editor/editor_tab/blur.py) and  *)
(* the canvas code that runs it on a worker thread (canvas.py).            *)
(*                                                                         *)
(* A QImage is a record [w, h, format, px] with px a function from         *)
(* <<x, y>> to the stored pixel <<r, g, b, a>>, the value QImage.pixel     *)
(* reads and QImage.setPixel writes in both 32-bit alpha formats.          *)
(* The canvas holds images of two formats: Format_ARGB32 for an image the  *)
(* editor creates (editor_tab.py:393: filled white and changed only by     *)
(* painting, so every pixel is opaque), and Format_ARGB32_Premultiplied    *)
(* for an image that comes out of QPixmap.toImage() with an alpha channel  *)
(* (canvas.py:60), whose pixels hold premultiplied channels.  result and   *)
(* temp_blur inherit the format through source.format().                   *)
(***************************************************************************)
EXTENDS Integers, Sequences, FiniteSets, TLC

VARIABLES
    source_image,       \* the caller's image: BlurWorker.source_image / apply_blur's argument
    rect,               \* <<x, y, width, height>> of the QRect argument
    blur_type,          \* 'gaussian' | 'box' | 'motion' | anything else
    radius,             \* the radius argument, unclamped
    progress_callback,  \* TRUE when a progress signal is supplied
    pc,                 \* position of the thread of control inside apply_blur
    source,             \* local: QImage(source_image)
    result,             \* local: the newly allocated result image
    temp_blur,          \* local: the blurred region
    reg,                \* locals x, y, w, h after "Ensure the rectangle is valid"
    rad,                \* local radius after "Limit radius for performance"
    processed_pixels,   \* local counter of the pixel loops
    count,              \* local count of the pixel processed last
    samples,            \* coordinates read with source.pixel for the pixel processed last
    ret,                \* which object apply_blur returned: "source_image" | "result" | "none"
    failed,             \* "no", or the block in which painter.begin failed or an exception was caught
    emitted,            \* values passed to progress_callback.emit, in order
    image,              \* CanvasWidget.image
    thread,             \* CanvasWidget.blur_thread: "none" | "started" | "quit" | "terminated"
    dialog,             \* the QProgressDialog: "none" | "open" | "closed"
    wasCanceled,        \* progress_dialog.wasCanceled()
    handled,            \* how many emitted progress values reached progress_dialog.setValue
    finished_signal,    \* BlurWorker.finished: "none" | "queued" | "delivered"
    status,             \* the last status_message of the canvas
    tasks,              \* how many blur tasks the canvas has started
    entire,             \* TRUE when the task was started by _apply_blur_to_image
    start_image,        \* the source image as it was when the task was started
    finished_emits,     \* how many times the worker of the task called finished.emit
    other,              \* the locals of a second worker whose thread is not the one stepping
    simple              \* CanvasWidget._very_simple_blur of editor_tab.py: "ready" | "done" | "begin_failed" | "raised"

vars == <<source_image, rect, blur_type, radius, progress_callback, pc, source,
          result, temp_blur, reg, rad, processed_pixels, count, samples, ret, failed,
          emitted, image, thread, dialog, wasCanceled, handled, finished_signal, status,
          tasks, entire, start_image, finished_emits, other, simple>>

----------------------------------------------------------------------------
(* Bounds of the model *)

Dim == 3            \* small images are Dim x Dim
WideW == 22         \* wide images are WideW x 2: wider than a radius-20 window
MaxTasks == 2       \* blur tasks the canvas starts one after the other
LongH == 10         \* long images are WideW x LongH: more than two hundred pixels

(* Program constants *)
MinRadius == 1
MaxRadius == 20
DefaultRadius == 10
ProgressEvery == 100

White == <<255, 255, 255, 255>>
Black == <<0, 0, 0, 255>>
Semi  == <<100, 50, 25, 128>>       \* half transparent, premultiplied
Transparent == <<0, 0, 0, 0>>       \* Qt.GlobalColor.transparent

\* the pixels an image of each format can hold when it reaches the canvas
Palette(fmt) ==
    IF fmt = "ARGB32" THEN {White, Black} ELSE {White, Black, Semi, Transparent}

Formats == {"ARGB32", "ARGB32_Premultiplied"}

Min(a, b) == IF a < b THEN a ELSE b
Max(a, b) == IF a > b THEN a ELSE b

Coords(W, H) == (0 .. W - 1) \X (0 .. H - 1)

NoImage == [w |-> 0, h |-> 0, format |-> "Invalid", px |-> <<>>]

\* no second worker exists
NoTask == [pc |-> "none"]

\* QImage(w, h, format) followed by fill(colour)
Filled(W, H, fmt, c) ==
    [w |-> W, h |-> H, format |-> fmt, px |-> [p \in Coords(W, H) |-> c]]

\* an image of one colour with one pixel of another colour
OneHot(W, H, fmt, bg, fg, hot) ==
    [w |-> W, h |-> H, format |-> fmt,
     px |-> [p \in Coords(W, H) |-> IF p = hot THEN fg ELSE bg]]

----------------------------------------------------------------------------
(* QPainter.drawImage with the default CompositionMode_SourceOver: the      *)
(* source pixel is blended over the target pixel.  Premultiplied pixels     *)
(* are blended as stored; Format_ARGB32 pixels are premultiplied, blended   *)
(* and stored unpremultiplied.                                              *)

Div255(v) == (v + (v \div 256) + 128) \div 256

qPremultiply(p) == <<Div255(p[1] * p[4]), Div255(p[2] * p[4]), Div255(p[3] * p[4]), p[4]>>

qUnpremultiply(p) ==
    IF p[4] = 255 THEN p
    ELSE IF p[4] = 0 THEN Transparent
    ELSE LET inv == 16711935 \div p[4]
         IN  <<(p[1] * inv + 32768) \div 65536,
               (p[2] * inv + 32768) \div 65536,
               (p[3] * inv + 32768) \div 65536,
               p[4]>>

\* s + BYTE_MUL(d, 255 - alpha(s)) on premultiplied pixels
BlendPM(s, d) ==
    LET ia == 255 - s[4]
    IN  <<s[1] + Div255(d[1] * ia), s[2] + Div255(d[2] * ia),
          s[3] + Div255(d[3] * ia), s[4] + Div255(d[4] * ia)>>

SourceOver(fmt, s, d) ==
    IF fmt = "ARGB32"
    THEN qUnpremultiply(BlendPM(qPremultiply(s), qPremultiply(d)))
    ELSE BlendPM(s, d)

\* painter.begin(dst); painter.drawImage(ox, oy, src); painter.end()
drawImage(dst, ox, oy, src) ==
    [dst EXCEPT !.px =
        [p \in Coords(dst.w, dst.h) |->
            IF /\ ox <= p[1] /\ p[1] < ox + src.w
               /\ oy <= p[2] /\ p[2] < oy + src.h
            THEN SourceOver(dst.format, src.px[<<p[1] - ox, p[2] - oy>>], dst.px[p])
            ELSE dst.px[p]]]

----------------------------------------------------------------------------
(* The rectangle and radius adjustments *)

ClampRect(W, H, rc) ==
    LET x == Max(0, Min(rc[1], W - 1))
        y == Max(0, Min(rc[2], H - 1))
    IN  <<x, y, Min(rc[3], W - x), Min(rc[4], H - y)>>

\* a clamp without the upper limit
ClampRadius_unbounded(rd) == Max(MinRadius, rd)

ClampRadius(rd) == Max(MinRadius, Min(MaxRadius, rd))

\* a guard that lets a one-pixel-wide region through
TooSmall_zero(c) == c[3] <= 0 \/ c[4] <= 0

\* "Rectangle too small for blur, skipping"
TooSmall(c) == c[3] <= 1 \/ c[4] <= 1

\* a test of the blur type that knows 'box' only
IsBox_box_only(t) == t = "box"

\* line 105: if blur_type == 'gaussian' or blur_type == 'box'
IsBox(t) == t = "gaussian" \/ t = "box"

----------------------------------------------------------------------------
(* The per-pixel accumulation *)

\* a motion loop that walks the rows of the window as the box loop does
Window_all_rows(img, ax, ay, t, rd) ==
    LET xs == {sx \in (ax - rd) .. (ax + rd) : 0 <= sx /\ sx < img.w}
        ys == {sy \in (ay - rd) .. (ay + rd) : 0 <= sy /\ sy < img.h}
    IN  xs \X ys

\* a validity check that lets the column and the row just past the image through
Window_off_by_one(img, ax, ay, t, rd) ==
    LET xs == {sx \in (ax - rd) .. (ax + rd) : 0 <= sx /\ sx <= img.w}
        ys == IF IsBox(t)
              THEN {sy \in (ay - rd) .. (ay + rd) : 0 <= sy /\ sy <= img.h}
              ELSE {sy \in {ay} : 0 <= sy /\ sy <= img.h}
    IN  xs \X ys

\* offsets dx that start at 1: the pixel itself and what lies left of it are not sampled
Window_ahead_only(img, ax, ay, t, rd) ==
    LET xs == {sx \in (ax + 1) .. (ax + rd) : 0 <= sx /\ sx < img.w}
        ys == IF IsBox(t)
              THEN {sy \in (ay - rd) .. (ay + rd) : 0 <= sy /\ sy < img.h}
              ELSE {sy \in {ay} : 0 <= sy /\ sy < img.h}
    IN  xs \X ys

\* the coordinates that pass "Check if coordinates are valid"
Window(img, ax, ay, t, rd) ==
    LET xs == {sx \in (ax - rd) .. (ax + rd) : 0 <= sx /\ sx < img.w}
        ys == IF IsBox(t)
              THEN {sy \in (ay - rd) .. (ay + rd) : 0 <= sy /\ sy < img.h}
              ELSE {sy \in {ay} : 0 <= sy /\ sy < img.h}
    IN  xs \X ys

\* source.pixel(sx, sy); QImage.pixel answers 12345 for a coordinate out of range
pixel(img, s) == IF s \in DOMAIN img.px THEN img.px[s] ELSE <<0, 48, 57, 0>>

RECURSIVE SumChannel(_, _, _)
SumChannel(img, S, ch) ==
    IF S = {} THEN 0
    ELSE LET s == CHOOSE q \in S : TRUE
         IN  pixel(img, s)[ch] + SumChannel(img, S \ {s}, ch)

\* the sums handed to qRgba undivided; qRgba keeps the low eight bits of each
Average_undivided(img, S) ==
    <<SumChannel(img, S, 1) % 256, SumChannel(img, S, 2) % 256,
      SumChannel(img, S, 3) % 256, SumChannel(img, S, 4) % 256>>

\* qRgba(r_sum // count, g_sum // count, b_sum // count, a_sum // count)
Average(img, S) ==
    LET n == Cardinality(S)
    IN  <<SumChannel(img, S, 1) \div n, SumChannel(img, S, 2) \div n,
          SumChannel(img, S, 3) \div n, SumChannel(img, S, 4) \div n>>

\* the share of the pixels still to be processed
ProgressPercent_remaining(done, total) == ((total - done) * 100) \div total

\* int((processed_pixels / total_pixels) * 100): the float quotient and product are
\* truncated; for the totals of this model the value is the integer quotient
ProgressPercent(done, total) == (done * 100) \div total

----------------------------------------------------------------------------
(* Inputs *)

ImagesOf(W, H, fmt, hots) ==
    {OneHot(W, H, fmt, bg, fg, hot) :
        bg \in Palette(fmt), fg \in Palette(fmt), hot \in hots}

SmallImages ==
    UNION {ImagesOf(Dim, Dim, fmt, {<<0, 0>>, <<1, 1>>, <<Dim - 1, 1>>}) : fmt \in Formats}

WideImages ==
    UNION {ImagesOf(WideW, 2, fmt, {<<WideW - 1, 0>>}) : fmt \in Formats}

\* images with enough pixels for progress values below 100
LongImages ==
    {OneHot(WideW, LongH, fmt, White, Black, <<0, 0>>) : fmt \in Formats}

SmallRects(img) ==
    {<<0, 0, img.w, img.h>>, <<1, 1, 2, 2>>, <<0, 0, 2, 2>>, <<0, 0, 1, 1>>,
     <<1, 0, 5, 5>>, <<-1, -1, 2, 2>>, <<1, 1, -1, 2>>, <<5, 5, 2, 2>>,
     <<0, 1, 3, 0>>, <<-3, 0, 2, 2>>}

BlurTypes == {"gaussian", "box", "motion", "sharpen"}

SmallRadii == {-5, 0, 1, 2, 21}
WideRadii == {1, 20, 21, 100}
LongRadii == {1}

Idle ==
    /\ source = NoImage /\ result = NoImage /\ temp_blur = NoImage
    /\ reg = <<0, 0, 0, 0>> /\ rad = 0 /\ processed_pixels = 0
    /\ count = 0 /\ samples = {} /\ ret = "none" /\ failed = "no" /\ emitted = <<>>

InitBlur ==
    /\ \/ /\ source_image \in SmallImages
          /\ rect \in SmallRects(source_image)
          /\ radius \in SmallRadii
       \/ /\ source_image \in WideImages
          /\ rect \in {<<0, 0, WideW, 2>>}
          /\ radius \in WideRadii
       \/ /\ source_image \in LongImages
          /\ rect \in {<<0, 0, WideW, LongH>>}
          /\ radius \in LongRadii
    /\ blur_type \in BlurTypes
    /\ progress_callback = TRUE
    /\ pc = "copy"
    /\ Idle
    /\ image = NoImage /\ thread = "none" /\ dialog = "none" /\ wasCanceled = FALSE
    /\ handled = 0 /\ finished_signal = "none" /\ status = "" /\ tasks = 0
    /\ entire = FALSE
    /\ start_image = source_image
    /\ finished_emits = 0 /\ other = NoTask
    /\ simple = "ready"

----------------------------------------------------------------------------
(* apply_blur, one action per block of the function *)

Return(obj) ==
    /\ pc' = "returned"
    /\ ret' = obj
    /\ source' = NoImage
    /\ temp_blur' = NoImage
    /\ result' = IF obj = "result" THEN result ELSE NoImage
    /\ reg' = <<0, 0, 0, 0>> /\ rad' = 0 /\ processed_pixels' = 0
    /\ count' = 0 /\ samples' = {}

args == <<source_image, rect, blur_type, radius, progress_callback, start_image>>

canvas ==
    <<image, thread, dialog, wasCanceled, handled, finished_signal, status, tasks, entire,
      finished_emits, other, simple>>

\* the thread apply_blur runs on has not been terminated
Alive == thread \in {"none", "started"}

\* the except blocks: log the error and hand back the caller's own image
\* a failure handler that hands back the half-built result instead
Fail_returns_result(site) ==
    /\ failed' = site
    /\ Return("result")

Fail(site) ==
    /\ failed' = site
    /\ Return("source_image")

\* a result allocated with width and height exchanged
CopySource_swapped ==
    /\ pc = "copy"
    /\ Alive
    /\ source' = source_image
    /\ result' = drawImage(Filled(source_image.h, source_image.w, source_image.format,
                                  Transparent),
                           0, 0, source_image)
    /\ pc' = "clamp"
    /\ UNCHANGED <<args, canvas, temp_blur, reg, rad, processed_pixels, count, samples, ret, failed, emitted>>

\* lines 56-75: copy the source, allocate the result, paint the source onto it
CopySource ==
    /\ pc = "copy"
    /\ Alive
    /\ source' = source_image
    /\ result' = drawImage(Filled(source_image.w, source_image.h, source_image.format,
                                  Transparent),
                           0, 0, source_image)
    /\ pc' = "clamp"
    /\ UNCHANGED <<args, canvas, temp_blur, reg, rad, processed_pixels, count, samples, ret, failed, emitted>>

\* lines 68-70, 76-78: painter.begin fails, or the copy raises
CopyFail ==
    /\ pc = "copy"
    /\ Alive
    /\ Fail("copy")
    /\ UNCHANGED <<args, canvas, emitted>>

\* lines 81-93: clamp the rectangle, return the copy when it is too small
RectTooSmall ==
    /\ pc = "clamp"
    /\ Alive
    /\ TooSmall(ClampRect(source.w, source.h, rect))
    /\ pc' = "returned"
    /\ ret' = "result"
    /\ source' = NoImage
    /\ UNCHANGED <<args, canvas, result, temp_blur, reg, rad, processed_pixels, count, samples,
                   failed, emitted>>

\* every blur type is sent into the pixel loops
Prepare_always_loops ==
    /\ pc = "clamp"
    /\ Alive
    /\ LET c == ClampRect(source.w, source.h, rect)
       IN  /\ ~TooSmall(c)
           /\ reg' = c
           /\ temp_blur' = Filled(c[3], c[4], source.format, Transparent)
    /\ rad' = ClampRadius(radius)
    /\ processed_pixels' = 0
    /\ pc' = "loop"
    /\ UNCHANGED <<args, canvas, source, result, count, samples, ret, failed, emitted>>

\* lines 81-109: clamp the rectangle and the radius, allocate temp_blur
Prepare ==
    /\ pc = "clamp"
    /\ Alive
    /\ LET c == ClampRect(source.w, source.h, rect)
       IN  /\ ~TooSmall(c)
           /\ reg' = c
           /\ temp_blur' = Filled(c[3], c[4], source.format, Transparent)
    /\ rad' = ClampRadius(radius)
    /\ processed_pixels' = 0
    /\ pc' = IF IsBox(blur_type) \/ blur_type = "motion" THEN "loop" ELSE "draw"
    /\ UNCHANGED <<args, canvas, source, result, count, samples, ret, failed, emitted>>

\* the average written into the caller's image instead of into temp_blur
BlurPixel_in_place ==
    /\ pc = "loop"
    /\ Alive
    /\ processed_pixels < reg[3] * reg[4]
    /\ LET px == processed_pixels % reg[3]
           py == processed_pixels \div reg[3]
           win == Window(source, reg[1] + px, reg[2] + py, blur_type, rad)
       IN  /\ samples' = win
           /\ count' = Cardinality(win)
           /\ source_image' =
                  [source_image EXCEPT !.px[<<reg[1] + px, reg[2] + py>>] =
                                                                Average(source, win)]
           /\ processed_pixels' = processed_pixels + 1
    /\ UNCHANGED <<rect, blur_type, radius, progress_callback, start_image, canvas, pc,
                   source, result, temp_blur, reg, rad, ret, failed, emitted>>

\* lines 111-154 and 162-204: one iteration of the px loop
BlurPixel ==
    /\ pc = "loop"
    /\ Alive
    /\ processed_pixels < reg[3] * reg[4]
    /\ LET px == processed_pixels % reg[3]
           py == processed_pixels \div reg[3]
           win == Window(source, reg[1] + px, reg[2] + py, blur_type, rad)
           n == Cardinality(win)
           total == reg[3] * reg[4]
           done == processed_pixels + 1
       IN  /\ samples' = win
           /\ count' = n
           /\ temp_blur' = IF n > 0
                           THEN [temp_blur EXCEPT !.px[<<px, py>>] = Average(source, win)]
                           ELSE temp_blur
           /\ processed_pixels' = done
           /\ emitted' = IF done % ProgressEvery = 0 /\ progress_callback
                         THEN Append(emitted, ProgressPercent(done, total))
                         ELSE emitted
    /\ UNCHANGED <<args, canvas, pc, source, result, reg, rad, ret, failed>>

\* the loops are exhausted: "Blur calculation completed"
LoopDone ==
    /\ pc = "loop"
    /\ Alive
    /\ processed_pixels = reg[3] * reg[4]
    /\ pc' = "draw"
    /\ UNCHANGED <<args, canvas, source, result, temp_blur, reg, rad, processed_pixels, count,
                   samples, ret, failed, emitted>>

\* lines 234-236: anything raised inside the outer try
OuterExcept ==
    /\ pc \in {"clamp", "loop"}
    /\ Alive
    /\ Fail("body")
    /\ UNCHANGED <<args, canvas, emitted>>

\* the blurred region painted at the origin instead of at (x, y)
DrawRegion_at_origin ==
    /\ pc = "draw"
    /\ Alive
    /\ result' = drawImage(result, 0, 0, temp_blur)
    /\ pc' = "finish"
    /\ UNCHANGED <<args, canvas, source, temp_blur, reg, rad, processed_pixels, count, samples,
                   ret, failed, emitted>>

\* lines 209-219: paint temp_blur onto the result at (x, y)
DrawRegion ==
    /\ pc = "draw"
    /\ Alive
    /\ result' = drawImage(result, reg[1], reg[2], temp_blur)
    /\ pc' = "finish"
    /\ UNCHANGED <<args, canvas, source, temp_blur, reg, rad, processed_pixels, count, samples,
                   ret, failed, emitted>>

\* lines 212-214, 220-222: painter.begin fails, or drawing raises
DrawFail ==
    /\ pc = "draw"
    /\ Alive
    /\ Fail("draw")
    /\ UNCHANGED <<args, canvas, emitted>>

\* a retry: the pixel loops are run again instead of returning
Finish_restarts ==
    /\ pc = "finish"
    /\ Alive
    /\ pc' = "loop"
    /\ processed_pixels' = 0
    /\ UNCHANGED <<args, canvas, source, result, temp_blur, reg, rad, count, samples, ret,
                   failed, emitted>>

\* lines 225-232: release temp_blur, emit 100, return the result
Finish ==
    /\ pc = "finish"
    /\ Alive
    /\ emitted' = IF progress_callback THEN Append(emitted, 100) ELSE emitted
    /\ Return("result")
    /\ UNCHANGED <<args, canvas, failed>>

apply_blur ==
    \/ CopySource \/ CopyFail \/ RectTooSmall \/ Prepare \/ BlurPixel \/ LoopDone
    \/ OuterExcept \/ DrawRegion \/ DrawFail \/ Finish

SpecBlur == InitBlur /\ [][apply_blur]_vars

\* the image apply_blur handed back
Returned == IF ret = "source_image" THEN source_image ELSE result

\* apply_blur as a function of its arguments, for a run in which nothing fails
blur(img, rc, t, rd) ==
    LET copy == drawImage(Filled(img.w, img.h, img.format, Transparent), 0, 0, img)
        c == ClampRect(img.w, img.h, rc)
        r == ClampRadius(rd)
        blurred ==
            [w |-> c[3], h |-> c[4], format |-> img.format,
             px |-> [p \in Coords(c[3], c[4]) |->
                        LET win == Window(img, c[1] + p[1], c[2] + p[2], t, r)
                        IN  IF (IsBox(t) \/ t = "motion") /\ Cardinality(win) > 0
                            THEN Average(img, win)
                            ELSE Transparent]]
    IN  IF TooSmall(c) THEN copy ELSE drawImage(copy, c[1], c[2], blurred)

----------------------------------------------------------------------------
(* The canvas: CanvasWidget starts a BlurWorker on a QThread of its own,   *)
(* waits in a modal QProgressDialog and takes the result in                *)
(* _on_blur_finished.  Signals of the worker are queued to the main        *)
(* thread and handled there in the order in which they were emitted.       *)

CanvasImages ==
    {Filled(Dim, Dim, "ARGB32", White)}
    \cup {OneHot(Dim, Dim, "ARGB32_Premultiplied", bg, fg, <<1, 1>>) :
            bg \in {White, Semi}, fg \in {Black, Transparent}}

\* image coordinates _map_to_image can answer
Points == {<<0, 0>>, <<1, 1>>, <<Dim - 1, Dim - 1>>}

CanvasRadii == {1, 25}

Abs(n) == IF n < 0 THEN -n ELSE n

\* CanvasWidget.__init__
Init ==
    /\ image = NoImage /\ radius = DefaultRadius /\ blur_type = "gaussian"
    /\ source_image = NoImage /\ start_image = NoImage
    /\ rect = <<0, 0, 0, 0>> /\ progress_callback = FALSE
    /\ pc = "idle"
    /\ Idle
    /\ thread = "none" /\ dialog = "none" /\ wasCanceled = FALSE
    /\ handled = 0 /\ finished_signal = "none" /\ status = "" /\ tasks = 0
    /\ entire = FALSE
    /\ finished_emits = 0 /\ other = NoTask
    /\ simple = "ready"

worker == <<source_image, rect, progress_callback, start_image, pc, source, result,
            temp_blur, reg, rad, processed_pixels, count, samples, ret, failed, emitted>>

\* no task has been started yet: the editor is being set up
Setup == tasks = 0 /\ dialog = "none"

set_image ==
    /\ Setup
    /\ image' \in CanvasImages
    /\ UNCHANGED <<worker, blur_type, radius, thread, dialog, wasCanceled, handled,
                   finished_signal, status, tasks, entire, finished_emits, other, simple>>

set_blur_radius ==
    /\ Setup
    /\ radius' \in CanvasRadii
    /\ UNCHANGED <<worker, blur_type, image, thread, dialog, wasCanceled, handled,
                   finished_signal, status, tasks, entire, finished_emits, other, simple>>

set_blur_type ==
    /\ Setup
    /\ blur_type' \in BlurTypes
    /\ UNCHANGED <<worker, radius, image, thread, dialog, wasCanceled, handled,
                   finished_signal, status, tasks, entire, finished_emits, other, simple>>

\* the canvas takes mouse events: no modal dialog is open, no worker is left running
\* and no finished signal is still queued ahead of the event
Ready ==
    /\ image # NoImage
    /\ dialog # "open"
    /\ thread # "started"
    /\ finished_signal # "queued"
    /\ tasks < MaxTasks

\* lines 538-561: BlurWorker(self.image, rect, ...), blur_thread.start(), dialog.exec()
StartTask(rc, whole) ==
    /\ Ready
    /\ rect' = rc
    /\ source_image' = image
    /\ start_image' = image
    /\ progress_callback' = TRUE
    /\ pc' = "copy"
    /\ source' = NoImage /\ result' = NoImage /\ temp_blur' = NoImage
    /\ reg' = <<0, 0, 0, 0>> /\ rad' = 0 /\ processed_pixels' = 0
    /\ count' = 0 /\ samples' = {} /\ ret' = "none" /\ failed' = "no" /\ emitted' = <<>>
    /\ thread' = "started"
    /\ dialog' = "open"
    /\ wasCanceled' = FALSE
    /\ handled' = 0
    /\ finished_signal' = "none"
    /\ status' = "applying"
    /\ tasks' = tasks + 1
    /\ entire' = whole
    /\ finished_emits' = 0
    /\ UNCHANGED <<image, blur_type, radius, other, simple>>

\* mouseReleaseEvent with the blur tool
apply_blur_to_region ==
    \E start \in Points, end \in Points :
        StartTask(<<Min(start[1], end[1]), Min(start[2], end[2]),
                    Abs(start[1] - end[1]), Abs(start[2] - end[2])>>, FALSE)

\* mousePressEvent with the blur tool and the control key
apply_blur_to_image ==
    StartTask(<<0, 0, image.w, image.h>>, TRUE)

\* a worker that reports a result only when apply_blur handed back a new image
run_emit_finished_on_success ==
    /\ pc = "returned"
    /\ thread = "started"
    /\ ret = "result"
    /\ pc' = "done"
    /\ finished_signal' = "queued"
    /\ finished_emits' = finished_emits + 1
    /\ UNCHANGED <<args, source, result, temp_blur, reg, rad, processed_pixels, count,
                   samples, ret, failed, emitted, image, thread, dialog, wasCanceled,
                   handled, status, tasks, entire, other, simple>>

\* BlurWorker.run, after apply_blur has returned: self.finished.emit(result)
run_emit_finished ==
    /\ pc = "returned"
    /\ thread = "started"
    /\ pc' = "done"
    /\ finished_signal' = "queued"
    /\ finished_emits' = finished_emits + 1
    /\ UNCHANGED <<args, source, result, temp_blur, reg, rad, processed_pixels, count,
                   samples, ret, failed, emitted, image, thread, dialog, wasCanceled,
                   handled, status, tasks, entire, other, simple>>

\* an except block that logs the error and emits nothing
run_except_silent ==
    /\ pc = "copy"
    /\ thread = "started"
    /\ failed' = "raised"
    /\ pc' = "done"
    /\ UNCHANGED <<args, source, result, temp_blur, reg, rad, processed_pixels, count,
                   samples, ret, emitted, image, thread, dialog, wasCanceled, handled,
                   finished_signal, finished_emits, status, tasks, entire, other, simple>>

\* BlurWorker.run, lines 33-36: the call of apply_blur raised (before its own try
\* block was entered), the except block emits finished with self.source_image
run_except ==
    /\ pc = "copy"
    /\ thread = "started"
    /\ failed' = "raised"
    /\ ret' = "source_image"
    /\ pc' = "done"
    /\ finished_signal' = "queued"
    /\ finished_emits' = finished_emits + 1
    /\ UNCHANGED <<args, source, result, temp_blur, reg, rad, processed_pixels, count,
                   samples, emitted, image, thread, dialog, wasCanceled, handled,
                   status, tasks, entire, other, simple>>

\* what the handler does after progress_dialog.exec() has returned
AfterExec(canceled) ==
    IF entire THEN "applied" ELSE IF canceled THEN "canceled" ELSE status

\* progress_dialog.setValue, the slot of BlurWorker.progress; the dialog closes at its maximum
setValue ==
    /\ handled < Len(emitted)
    /\ handled' = handled + 1
    /\ IF dialog = "open" /\ emitted[handled + 1] >= 100
       THEN dialog' = "closed" /\ status' = AfterExec(FALSE)
       ELSE UNCHANGED <<dialog, status>>
    /\ UNCHANGED <<worker, blur_type, radius, image, thread, wasCanceled, finished_signal,
                   tasks, entire, finished_emits, other, simple>>

\* a finished signal that overtakes the progress values queued before it
on_blur_finished_unordered ==
    /\ finished_signal = "queued"
    /\ image' = Returned
    /\ status' = "applied"
    /\ finished_signal' = "delivered"
    /\ thread' = IF thread = "started" THEN "quit" ELSE thread
    /\ UNCHANGED <<worker, blur_type, radius, dialog, wasCanceled, handled, tasks, entire,
                   finished_emits, other, simple>>

\* lines 574-586, and blur_thread.quit, the slots of BlurWorker.finished
on_blur_finished ==
    /\ finished_signal = "queued"
    /\ handled = Len(emitted)
    /\ image' = Returned
    /\ status' = "applied"
    /\ finished_signal' = "delivered"
    /\ thread' = IF thread = "started" THEN "quit" ELSE thread
    /\ UNCHANGED <<worker, blur_type, radius, dialog, wasCanceled, handled, tasks, entire,
                   finished_emits, other, simple>>

\* what the cancel branch reports: 'Blur operation canceled', or, when the thread has
\* quit and deleteLater has deleted the QThread, the error terminate() raises on it
\* (lines 570-572)
CancelReports ==
    IF thread = "quit"
    THEN {AfterExec(TRUE), IF entire THEN "applied" ELSE "error"}
    ELSE {AfterExec(TRUE)}

\* a cancel that keeps what the terminated worker had painted so far
cancel_keeps_partial ==
    /\ dialog = "open"
    /\ dialog' = "closed"
    /\ wasCanceled' = TRUE
    /\ thread' = IF thread = "started" THEN "terminated" ELSE thread
    /\ status' \in CancelReports
    /\ image' = IF pc = "loop" THEN drawImage(result, reg[1], reg[2], temp_blur) ELSE image
    /\ UNCHANGED <<worker, blur_type, radius, handled, finished_signal, tasks,
                   entire, finished_emits, other, simple>>

\* the user presses Cancel; lines 564-568: terminate the thread and report it
cancel ==
    /\ dialog = "open"
    /\ dialog' = "closed"
    /\ wasCanceled' = TRUE
    /\ thread' = IF thread = "started" THEN "terminated" ELSE thread
    /\ status' \in CancelReports
    /\ UNCHANGED <<worker, blur_type, radius, image, handled, finished_signal, tasks,
                   entire, finished_emits, other, simple>>

Next ==
    \/ set_image \/ set_blur_radius \/ set_blur_type
    \/ apply_blur_to_region \/ apply_blur_to_image
    \/ apply_blur \/ run_emit_finished \/ run_except
    \/ setValue \/ on_blur_finished \/ cancel

Spec == Init /\ [][Next]_vars

\* the steps of the worker thread
WorkerThread ==
    \/ run_emit_finished
    \/ CopyFail \/ OuterExcept \/ DrawFail \/ Finish
    \/ CopySource \/ RectTooSmall \/ Prepare \/ BlurPixel \/ LoopDone \/ DrawRegion

\* the slots the event loop of the main thread runs for the queued signals
EventLoop == setValue \/ on_blur_finished

\* the worker thread runs until it returns or is terminated, and the event loop of the
\* main thread handles every queued signal
FairSpec == Spec /\ WF_vars(WorkerThread) /\ WF_vars(EventLoop)

----------------------------------------------------------------------------
(* Two workers at once: a second BlurWorker is created and started while   *)
(* the thread of the first is still inside apply_blur.  Both were given    *)
(* the same self.image; each has its own fields and its own locals.  The   *)
(* variables pc, source, result, ... are those of the thread that steps;   *)
(* other holds those of the thread that waits.                             *)

PairImages ==
    {OneHot(Dim, Dim, "ARGB32", White, Black, <<1, 1>>),
     OneHot(Dim, Dim, "ARGB32_Premultiplied", White, Semi, <<1, 1>>),
     OneHot(Dim, Dim, "ARGB32_Premultiplied", Semi, Black, <<0, 0>>)}

PairRects == {<<0, 0, 2, 2>>, <<1, 1, 2, 2>>, <<0, 0, Dim, Dim>>, <<0, 0, 1, 1>>}

PairTypes == {"gaussian", "motion"}

\* BlurWorker.__init__ of the second worker, its thread not yet inside apply_blur
Parked(rc, t, rd) ==
    [rect |-> rc, blur_type |-> t, radius |-> rd, pc |-> "copy",
     source |-> NoImage, result |-> NoImage, temp_blur |-> NoImage,
     reg |-> <<0, 0, 0, 0>>, rad |-> 0, processed_pixels |-> 0, count |-> 0,
     samples |-> {}, ret |-> "none", failed |-> "no", emitted |-> <<>>]

InitPair ==
    /\ source_image \in PairImages
    /\ rect \in PairRects /\ blur_type \in PairTypes /\ radius = MinRadius
    /\ other \in {Parked(rc, t, MinRadius) : rc \in PairRects, t \in PairTypes}
    /\ simple = "ready"
    /\ progress_callback = TRUE
    /\ pc = "copy"
    /\ Idle
    /\ image = source_image /\ thread = "started" /\ dialog = "none"
    /\ wasCanceled = FALSE
    /\ handled = 0 /\ finished_signal = "none" /\ status = "applying" /\ tasks = 2
    /\ entire = FALSE
    /\ start_image = source_image
    /\ finished_emits = 0

\* the fields and locals of the thread that steps, as a record
Stepping ==
    [rect |-> rect, blur_type |-> blur_type, radius |-> radius, pc |-> pc,
     source |-> source, result |-> result, temp_blur |-> temp_blur,
     reg |-> reg, rad |-> rad, processed_pixels |-> processed_pixels, count |-> count,
     samples |-> samples, ret |-> ret, failed |-> failed, emitted |-> emitted]

\* two workers that paint into one result image
Switch_shares_result ==
    /\ other # NoTask
    /\ Alive
    /\ other' = Stepping
    /\ rect' = other.rect /\ blur_type' = other.blur_type /\ radius' = other.radius
    /\ pc' = other.pc /\ source' = other.source /\ temp_blur' = other.temp_blur
    /\ reg' = other.reg /\ rad' = other.rad
    /\ processed_pixels' = other.processed_pixels /\ count' = other.count
    /\ samples' = other.samples /\ ret' = other.ret /\ failed' = other.failed
    /\ emitted' = other.emitted
    /\ UNCHANGED <<result, source_image, start_image, progress_callback, image, thread,
                   dialog, wasCanceled, handled, finished_signal, status, tasks, entire,
                   finished_emits, simple>>

\* the scheduler takes the processor from one worker thread and gives it to the other
Switch ==
    /\ other # NoTask
    /\ Alive
    /\ other' = Stepping
    /\ rect' = other.rect /\ blur_type' = other.blur_type /\ radius' = other.radius
    /\ pc' = other.pc /\ source' = other.source /\ result' = other.result
    /\ temp_blur' = other.temp_blur /\ reg' = other.reg /\ rad' = other.rad
    /\ processed_pixels' = other.processed_pixels /\ count' = other.count
    /\ samples' = other.samples /\ ret' = other.ret /\ failed' = other.failed
    /\ emitted' = other.emitted
    /\ UNCHANGED <<source_image, start_image, progress_callback, image, thread, dialog,
                   wasCanceled, handled, finished_signal, status, tasks, entire,
                   finished_emits, simple>>

\* canvas.py:545: self.blur_thread is rebound while the first QThread is running; when
\* that drops the last reference to it, Qt ends the process ("QThread: Destroyed while
\* thread is still running") and neither worker steps again
rebind_destroys ==
    /\ other # NoTask
    /\ Alive
    /\ thread' = "terminated"
    /\ UNCHANGED <<worker, blur_type, radius, image, dialog, wasCanceled, handled,
                   finished_signal, status, tasks, entire, finished_emits, other, simple>>

NextPair == apply_blur \/ Switch \/ rebind_destroys

SpecPair == InitPair /\ [][NextPair]_vars

----------------------------------------------------------------------------
(* The widget-integrated blur of ui/editor/editor_tab.py:                  *)
(* CanvasWidget._very_simple_blur works on self.image with self.blur_type  *)
(* and self.blur_radius and rebinds self.image to its result.  It is set   *)
(* beside apply_blur on the same image, rectangle, type and radius.        *)

\* lines 529-532: "Ensure the rectangle is valid"
simple_rect(W, H, rc) ==
    LET x == Max(0, Min(rc[1], W - 1))
        y == Max(0, Min(rc[2], H - 1))
    IN  <<x, y, Min(rc[3], W - x), Min(rc[4], H - y)>>

\* a guard that lets a region one pixel wide or high through
simple_too_small_zero(c) == c[3] <= 0 \/ c[4] <= 0

\* line 534: if w <= 1 or h <= 1: return
simple_too_small(c) == c[3] <= 1 \/ c[4] <= 1

\* lines 542-546: radius = self.blur_radius, raised to 1 and limited to 20
simple_radius(rd) == IF rd < 1 THEN 1 ELSE IF rd > 20 THEN 20 ELSE rd

\* lines 558-565 and 599-605: the coordinates (sx, sy) that pass the validity test
simple_samples(img, ax, ay, t, rd) ==
    IF t = "gaussian" \/ t = "box"
    THEN {s \in ((ax - rd) .. (ax + rd)) \X ((ay - rd) .. (ay + rd)) :
            0 <= s[1] /\ s[1] < img.w /\ 0 <= s[2] /\ s[2] < img.h}
    ELSE IF t = "motion"
    THEN {s \in ((ax - rd) .. (ax + rd)) \X {ay} :
            0 <= s[1] /\ s[1] < img.w /\ 0 <= s[2] /\ s[2] < img.h}
    ELSE {}

\* lines 509-644: the image self.image is bound to when the function returns and
\* nothing has failed
very_simple_blur_image(img, rc, t, rd) ==
    LET copy == drawImage(Filled(img.w, img.h, img.format, Transparent), 0, 0, img)
        c == simple_rect(img.w, img.h, rc)
        r == simple_radius(rd)
        blurred ==
            [w |-> c[3], h |-> c[4], format |-> img.format,
             px |-> [p \in Coords(c[3], c[4]) |->
                        LET S == simple_samples(img, c[1] + p[1], c[2] + p[2], t, r)
                        IN  IF Cardinality(S) > 0 THEN Average(img, S) ELSE Transparent]]
    IN  IF simple_too_small(c) THEN img ELSE drawImage(copy, c[1], c[2], blurred)

\* one call of _very_simple_blur(rect) that runs to line 647
very_simple_blur ==
    /\ simple = "ready"
    /\ image # NoImage
    /\ image' = very_simple_blur_image(image, rect, blur_type, radius)
    /\ simple' = "done"
    /\ UNCHANGED <<args, worker, thread, dialog, wasCanceled, handled, finished_signal,
                   status, tasks, entire, finished_emits, other>>

\* lines 517-519 and 632-634: painter.begin fails and the function returns; lines
\* 649-652: an exception is logged and raised again, and the caller reports it
\* (lines 484-487); self.image is not rebound
very_simple_blur_fails ==
    /\ simple = "ready"
    /\ image # NoImage
    /\ \/ simple' = "begin_failed" /\ status' = status
       \/ simple' = "raised" /\ status' = "error"
    /\ UNCHANGED <<args, worker, image, thread, dialog, wasCanceled, handled,
                   finished_signal, tasks, entire, finished_emits, other>>

\* the widget holds the image that apply_blur is called on
InitSimple ==
    /\ source_image \in SmallImages
    /\ rect \in SmallRects(source_image)
    /\ radius \in SmallRadii
    /\ blur_type \in BlurTypes
    /\ progress_callback = TRUE
    /\ pc = "copy"
    /\ Idle
    /\ image = source_image /\ thread = "none" /\ dialog = "none" /\ wasCanceled = FALSE
    /\ handled = 0 /\ finished_signal = "none" /\ status = "" /\ tasks = 0
    /\ entire = FALSE
    /\ start_image = source_image
    /\ finished_emits = 0 /\ other = NoTask
    /\ simple = "ready"

NextSimple == apply_blur \/ very_simple_blur \/ very_simple_blur_fails

SpecSimple == InitSimple /\ [][NextSimple]_vars

----------------------------------------------------------------------------
(* The claims' vocabulary, as the specification words it *)

Clamp(v, lo, hi) == IF v < lo THEN lo ELSE IF v > hi THEN hi ELSE v

\* the clamped region: x in [0, W-1], y in [0, H-1], width = min(width, W - x), ...
ClampedRegion ==
    LET x == Clamp(rect[1], 0, source_image.w - 1)
        y == Clamp(rect[2], 0, source_image.h - 1)
    IN  [x |-> x, y |-> y,
         w |-> IF rect[3] < source_image.w - x THEN rect[3] ELSE source_image.w - x,
         h |-> IF rect[4] < source_image.h - y THEN rect[4] ELSE source_image.h - y]

Degenerate == ClampedRegion.w <= 1 \/ ClampedRegion.h <= 1

InRegion(p) ==
    /\ ClampedRegion.x <= p[1] /\ p[1] < ClampedRegion.x + ClampedRegion.w
    /\ ClampedRegion.y <= p[2] /\ p[2] < ClampedRegion.y + ClampedRegion.h

AllCoords == Coords(source_image.w, source_image.h)

RegionCoords == {p \in AllCoords : InRegion(p)}

ClampedRadius == Clamp(radius, 1, 20)

\* the in-bounds samples of the square window of pixel p
BoxSamples(p) ==
    {q \in AllCoords : /\ p[1] - ClampedRadius <= q[1] /\ q[1] <= p[1] + ClampedRadius
                       /\ p[2] - ClampedRadius <= q[2] /\ q[2] <= p[2] + ClampedRadius}

\* the in-bounds samples of the one-row window of pixel p
RowSamples(p) == {q \in BoxSamples(p) : q[2] = p[2]}

RECURSIVE Total(_, _)
Total(S, ch) ==
    IF S = {} THEN 0
    ELSE LET q == CHOOSE e \in S : TRUE
         IN  source_image.px[q][ch] + Total(S \ {q}, ch)

\* floor(sum / count) of each channel over the samples S
Mean(S) == [ch \in 1 .. 4 |-> Total(S, ch) \div Cardinality(S)]

Succeeded == pc = "returned" /\ failed = "no"

----------------------------------------------------------------------------
C2_BoxIsTruncatedAverage ==
    (Succeeded /\ IsBox(blur_type) /\ ~Degenerate) =>
        \A p \in RegionCoords : Returned.px[p] = Mean(BoxSamples(p))

(* C3: for 'motion' on a non-degenerate region, every pixel inside the     *)
(* region has each channel equal to floor(sum / count) over the in-bounds  *)
(* samples of its own row within the radius.                               *)
C3_MotionIsRowAverage ==
    (Succeeded /\ blur_type = "motion" /\ ~Degenerate) =>
        \A p \in RegionCoords : Returned.px[p] = Mean(RowSamples(p))

C6_FailSafe ==
    /\ pc = "returned" => (ret \in {"source_image", "result"} /\ Returned # NoImage)
    /\ failed # "no" => (pc = "returned" /\ Returned.px = source_image.px)

\* painting the blurred region failed after the whole region had been averaged
C6_Witness ==
    /\ failed = "draw" /\ pc = "returned" /\ ret = "source_image"
    /\ IsBox(blur_type) /\ ~Degenerate

(* C7: a radius above 20 gives the image radius 20 gives, a radius below 1 *)
(* the image radius 1 gives.                                               *)
C7_RadiusClamp ==
    Succeeded =>
        /\ radius > 20 => Returned = blur(source_image, rect, blur_type, 20)
        /\ radius < 1 => Returned = blur(source_image, rect, blur_type, 1)

\* a radius above 20 on an image so wide that a larger window would reach other pixels
C7_Witness ==
    /\ Succeeded /\ radius > 20 /\ ~Degenerate
    /\ source_image.w = WideW
    /\ IsBox(blur_type) \/ blur_type = "motion"
    /\ source_image.px[<<WideW - 1, 0>>] # source_image.px[<<0, 0>>]
    /\ Returned.px # source_image.px

(* C8: the returned image has the width and the height of the source.      *)
C8_ShapePreserved ==
    pc = "returned" =>
        /\ Returned.w = source_image.w
        /\ Returned.h = source_image.h
        /\ DOMAIN Returned.px = AllCoords

\* a blur changed an image that is not square
C8_Witness ==
    /\ Succeeded /\ ~Degenerate
    /\ source_image.w # source_image.h
    /\ Returned.px # source_image.px

\* the region padded by the radius on all sides, clamped to the image
Padded ==
    {q \in AllCoords :
        /\ ClampedRegion.x - ClampedRadius <= q[1]
        /\ q[1] < ClampedRegion.x + ClampedRegion.w + ClampedRadius
        /\ ClampedRegion.y - ClampedRadius <= q[2]
        /\ q[2] < ClampedRegion.y + ClampedRegion.h + ClampedRadius}

UniformField == \A q \in Padded : source_image.px[q] = source_image.px[CHOOSE e \in Padded : TRUE]

(* C9: when the source has one pixel value all over the padded region,     *)
(* every pixel of the region has that value in the blurred image, for box  *)
(* and motion blur alike.                                                  *)
C9_UniformFieldUnchanged ==
    (Succeeded /\ ~Degenerate /\ (IsBox(blur_type) \/ blur_type = "motion") /\ UniformField) =>
        \A p \in RegionCoords : Returned.px[p] = source_image.px[p]

\* absolute coordinates of the pixel the loop processed last
LastPixel ==
    <<ClampedRegion.x + ((processed_pixels - 1) % ClampedRegion.w),
      ClampedRegion.y + ((processed_pixels - 1) \div ClampedRegion.w)>>

(* C10: the box window is clamped at the image edges: the pixel at         *)
(* (ax, ay) is averaged over exactly                                       *)
(* (min(ax,r) + min(W-1-ax,r) + 1) * (min(ay,r) + min(H-1-ay,r) + 1)       *)
(* samples, none of them outside the image.                                *)
C10_WindowClampedAtEdges ==
    (pc = "loop" /\ processed_pixels > 0 /\ IsBox(blur_type)) =>
        LET ax == LastPixel[1]
            ay == LastPixel[2]
            r == ClampedRadius
        IN  /\ count = (Min(ax, r) + Min(source_image.w - 1 - ax, r) + 1)
                        * (Min(ay, r) + Min(source_image.h - 1 - ay, r) + 1)
            /\ Cardinality(samples) = count
            /\ \A q \in samples :
                    /\ 0 <= q[1] /\ q[1] < source_image.w
                    /\ 0 <= q[2] /\ q[2] < source_image.h

\* the corner pixel was averaged over a window cut off by two edges
C10_Witness ==
    /\ pc = "loop" /\ processed_pixels > 0 /\ IsBox(blur_type)
    /\ LastPixel = <<0, 0>>
    /\ count > 1
    /\ count < (2 * ClampedRadius + 1) * (2 * ClampedRadius + 1)

(* C5: the source image of a blur task is never mutated: before the start, *)
(* while the worker runs, after completion and after a cancel at any       *)
(* point, its pixels are those it had when the task was started.           *)
C5_SourceNeverMutated ==
    /\ source_image = start_image
    /\ (tasks > 0 /\ finished_signal # "delivered") => image = start_image

\* the task was cancelled while the worker was inside the pixel loop
C5_Witness ==
    /\ wasCanceled /\ thread = "terminated"
    /\ pc = "loop" /\ processed_pixels > 0
    /\ \E p \in DOMAIN temp_blur.px : temp_blur.px[p] # Transparent

\* the source with every row other than row ay painted in the colour c
OtherRows(ay, c) ==
    [source_image EXCEPT !.px =
        [q \in AllCoords |-> IF q[2] = ay THEN source_image.px[q] ELSE c]]

(* C11: motion blur is row-local: a source that agrees with this one on    *)
(* row ay, whatever it holds on the other rows, gives the same blurred     *)
(* value at every pixel (ax, ay) of the region.                            *)
C11_MotionIsRowLocal ==
    (Succeeded /\ blur_type = "motion" /\ ~Degenerate) =>
        \A p \in RegionCoords, c \in Palette(source_image.format) :
            blur(OtherRows(p[2], c), rect, blur_type, radius).px[p] = Returned.px[p]

\* a motion blur changed a row of an image whose rows differ from one another
C11_Witness ==
    /\ Succeeded /\ blur_type = "motion" /\ ~Degenerate
    /\ \E p \in RegionCoords :
          /\ Returned.px[p] # source_image.px[p]
          /\ \E q \in AllCoords : q[2] # p[2] /\ source_image.px[q] # source_image.px[p]
          /\ \E c \in Palette(source_image.format) : OtherRows(p[2], c) # source_image

(* C12: for a non-degenerate region and a supplied progress callback, the  *)
(* values passed to the callback are non-decreasing, each lies in          *)
(* [0, 100], and the last one of a successful run is 100.                  *)
C12_ProgressMonotone ==
    /\ \A i \in 1 .. Len(emitted) : 0 <= emitted[i] /\ emitted[i] <= 100
    /\ \A i \in 1 .. (Len(emitted) - 1) : emitted[i] <= emitted[i + 1]
    /\ (Succeeded /\ ~Degenerate /\ progress_callback) =>
            (Len(emitted) > 0 /\ emitted[Len(emitted)] = 100)

\* a run over more than two hundred pixels reported two values below 100, then 100
C12_Witness ==
    /\ Succeeded /\ ~Degenerate /\ progress_callback
    /\ Len(emitted) = 3
    /\ 0 < emitted[1] /\ emitted[1] < emitted[2] /\ emitted[2] < emitted[3]

\* the image a worker may hand over: the unmodified source or the blurred image
ValidResult ==
    /\ Returned # NoImage
    /\ \/ Returned = start_image
       \/ Returned = blur(start_image, rect, blur_type, radius)

(* C13: every started blur task that is not cancelled has its completion   *)
(* callback fired exactly once, after a success and after an internal      *)
(* failure alike, carrying the blurred image or the unmodified source.     *)
C13_CompletedExactlyOnce ==
    /\ [](/\ finished_emits <= 1
          /\ finished_signal # "none" => (finished_emits = 1 /\ ValidResult))
    /\ (thread = "started") ~> (finished_signal = "delivered" \/ wasCanceled)

\* the canvas took the result of a task that failed while painting and was not cancelled
C13_Witness ==
    /\ finished_signal = "delivered" /\ ~wasCanceled /\ finished_emits = 1
    /\ failed = "draw" /\ image = start_image

(* C14: the completion callback of a task is its last callback and fires   *)
(* at most once: no progress value is emitted or delivered for the task    *)
(* after it, and every progress value of the task has been delivered       *)
(* before it.                                                              *)
C14_CompletionIsLast ==
    [][/\ finished_emits' <= 1
       /\ (tasks' = tasks /\ finished_emits >= 1) => emitted' = emitted
       /\ (tasks' = tasks /\ finished_signal = "delivered") =>
              (handled' = handled /\ finished_signal' = "delivered")
       /\ finished_signal' = "delivered" => handled' = Len(emitted')]_vars

\* the canvas took the result after the progress value 100 had reached the dialog
C14_Witness ==
    /\ finished_signal = "delivered" /\ finished_emits = 1
    /\ Len(emitted) > 0 /\ handled = Len(emitted)
    /\ image # start_image

(* C15: no partial result is ever visible to the caller: whatever the      *)
(* interleaving of the pixel loop, the delivery of the completion and a    *)
(* cancel, the image of the canvas is the original source or the complete  *)
(* blur result, never an image with only some pixels of the region         *)
(* blurred.                                                                *)
C15_NoPartialResult ==
    tasks > 0 =>
        \/ image = start_image
        \/ /\ finished_signal = "delivered"
           /\ image = blur(start_image, rect, blur_type, radius)

\* a cancel stopped the worker after it had blurred some pixels of the region, not all
C15_Witness ==
    /\ wasCanceled /\ thread = "terminated" /\ pc = "loop"
    /\ 0 < processed_pixels /\ processed_pixels < reg[3] * reg[4]
    /\ drawImage(result, reg[1], reg[2], temp_blur) # start_image
    /\ drawImage(result, reg[1], reg[2], temp_blur)
           # blur(start_image, rect, blur_type, radius)

(* C16: once the canvas has reported the cancel of a running task and      *)
(* terminated the worker thread, the image of the canvas is the original   *)
(* source and stays so, also when the worker had already emitted its       *)
(* finished result.                                                        *)
C16_CancelledYieldsOriginal ==
    wasCanceled => image = start_image

(* C17: an internal error of a running task ends in a completion: when the *)
(* engine call raises inside BlurWorker.run, or fails inside, the worker   *)
(* still emits finished exactly once, and the image it carries is the      *)
(* unmodified source.                                                      *)
C17_ErrorCompletes ==
    /\ failed = "raised" => (pc = "done" /\ finished_emits = 1)
    /\ (failed # "no" /\ pc = "done") =>
           /\ finished_emits = 1
           /\ finished_signal \in {"queued", "delivered"}
           /\ ret = "source_image" /\ Returned = start_image
    /\ (failed # "no" /\ finished_signal = "delivered" /\ ~wasCanceled) =>
           image = start_image

\* the engine call raised, and the canvas took the unmodified source as the result
C17_Witness ==
    /\ failed = "raised" /\ finished_signal = "delivered" /\ finished_emits = 1
    /\ image = start_image /\ image # NoImage

\* the image the waiting worker has handed back
OtherReturned == IF other.ret = "source_image" THEN source_image ELSE other.result

WithAlpha(a) ==
    [source_image EXCEPT !.px =
        [q \in AllCoords |-> <<source_image.px[q][1], source_image.px[q][2],
                               source_image.px[q][3], a>>]]

\* the window the blur type averages over
SamplesOf(p) == IF IsBox(blur_type) THEN BoxSamples(p) ELSE RowSamples(p)

(* C19: channels are independent and alpha is blurred like colour: at      *)
(* every pixel of the region the R, G and B of the returned image are      *)
(* those a source differing only in alpha gives, and the alpha is the      *)
(* truncated average of the alpha values of the window, also when that     *)
(* average is below 255.                                                   *)
C19_ChannelsIndependent ==
    (Succeeded /\ (IsBox(blur_type) \/ blur_type = "motion") /\ ~Degenerate) =>
        \A p \in RegionCoords :
            /\ Returned.px[p][4] = Mean(SamplesOf(p))[4]
            /\ LET alt == blur(WithAlpha(255), rect, blur_type, radius).px[p]
               IN  /\ Returned.px[p][1] = alt[1]
                   /\ Returned.px[p][2] = alt[2]
                   /\ Returned.px[p][3] = alt[3]

(* C20: after the clamping of the region, for every rectangle the caller   *)
(* supplies (any integers, negative ones included), the clamped region has *)
(* width >= 0 and height >= 0 and lies within [0, W) x [0, H).             *)
C20_ClampedRegionValid ==
    (pc \notin {"copy", "clamp"} /\ failed = "no") =>
        LET c == ClampRect(source_image.w, source_image.h, rect)
        IN  /\ c[3] >= 0 /\ c[4] >= 0
            /\ 0 <= c[1] /\ c[1] + c[3] <= source_image.w
            /\ 0 <= c[2] /\ c[2] + c[4] <= source_image.h
            /\ c[1] < source_image.w /\ c[2] < source_image.h

\* the caller's rectangle lies fully outside the image bounds, on one side or another
FullyOutside ==
    \/ rect[1] + rect[3] <= 0 \/ rect[2] + rect[4] <= 0
    \/ rect[1] >= source_image.w \/ rect[2] >= source_image.h

\* the caller's rectangle has no area
ZeroArea == rect[3] <= 0 \/ rect[4] <= 0

(* C21: degenerate input is silently normalized to a no-op copy: for every *)
(* region that is too small, has zero area or lies fully outside the image *)
(* bounds on any side, blur returns an image pixel-identical to the source *)
(* and raises no error.                                                    *)
C21_DegenerateInputIsNoOp ==
    (pc = "returned" /\ (Degenerate \/ ZeroArea \/ FullyOutside)) =>
        /\ ret \in {"source_image", "result"}
        /\ Returned.px = source_image.px

(* C22: every task that is started and never cancelled terminates: the     *)
(* pixel loop of the worker takes w * h steps and no more, and under fair  *)
(* scheduling of the worker the task reaches its completion, delivered to  *)
(* the canvas.                                                             *)
C22_TaskTerminates ==
    /\ [](pc = "loop" => processed_pixels <= reg[3] * reg[4])
    /\ (pc = "loop" /\ thread = "started") ~> (pc = "done" \/ wasCanceled)
    /\ (pc = "copy" /\ thread = "started")
           ~> ((pc = "done" /\ finished_signal = "delivered") \/ wasCanceled)

\* a task that ran its pixel loop to the end and was not cancelled has been delivered
C22_Witness ==
    /\ finished_signal = "delivered" /\ ~wasCanceled /\ failed = "no"
    /\ pc = "done" /\ ~Degenerate /\ IsBox(blur_type)
    /\ image # start_image

\* the progress values a run of the pixel loops of the given type over the clamped
\* region reports: one every hundred pixels, then 100
ProgressOf(t) ==
    IF Degenerate THEN <<>>
    ELSE LET total == ClampedRegion.w * ClampedRegion.h
             inLoop == IF t \in {"gaussian", "box", "motion"}
                       THEN [i \in 1 .. (total \div 100) |-> (i * 100 * 100) \div total]
                       ELSE <<>>
         IN  inLoop \o <<100>>

(* C23: the 'gaussian' blur kind is a uniform box filter: for every        *)
(* source, region and radius, blur with kind 'gaussian' returns the image  *)
(* and emits the progress sequence that blur with kind 'box' does.         *)
C23_GaussianIsBox ==
    (Succeeded /\ blur_type = "gaussian") =>
        /\ Returned = blur(source_image, rect, "box", radius)
        /\ emitted = ProgressOf("box")

\* a 'gaussian' run over more than one hundred pixels changed the image
C23_Witness ==
    /\ Succeeded /\ blur_type = "gaussian" /\ ~Degenerate
    /\ Returned.px # source_image.px
    /\ Len(emitted) > 1

\* the states of the task the canvas started last
Completed == finished_signal = "delivered"
Cancelled == wasCanceled

(* C24: the terminal states of a task are absorbing: a task whose          *)
(* completion has been delivered is never cancelled afterwards (no         *)
(* termination of the worker thread, no 'canceled' report), and a          *)
(* cancelled task never becomes completed afterwards.                      *)
C24_TerminalStatesAbsorbing ==
    [][tasks' = tasks =>
          /\ (Completed /\ ~Cancelled) => ~Cancelled'
          /\ (Cancelled /\ ~Completed) => ~Completed']_vars

(* C25: whenever a blur task started from the canvas delivers its          *)
(* completion, the wait of the caller on the modal progress dialog has     *)
(* ended too, without a cancel of the user, on every path on which the     *)
(* worker finishes: after a degenerate region and after an internal        *)
(* failure as well.                                                        *)
C25_WaitEndsWithCompletion ==
    (finished_signal = "delivered" /\ ~wasCanceled) => dialog = "closed"

\* the caller's rectangle (x, y, width, height) holds the coordinate p
InCallerRect(p) ==
    /\ rect[1] <= p[1] /\ p[1] < rect[1] + rect[3]
    /\ rect[2] <= p[2] /\ p[2] < rect[2] + rect[4]

(* C26: blur only changes pixels the caller asked for: every pixel of the  *)
(* returned image that differs from the source lies inside the             *)
(* intersection of the caller-supplied rectangle with the image bounds,    *)
(* also for a rectangle with negative x or y or extending past the image.  *)
C26_ChangesOnlyRequestedPixels ==
    pc = "returned" =>
        \A p \in AllCoords :
            Returned.px[p] # source_image.px[p] => InCallerRect(p)

UnknownType == blur_type \notin {"gaussian", "box", "motion"}

LastWritten ==
    temp_blur.px[<<(processed_pixels - 1) % ClampedRegion.w,
                   (processed_pixels - 1) \div ClampedRegion.w>>]

\* v lies between the least and the greatest value of channel ch over the samples S
Between(v, S, ch) ==
    /\ \E q \in S : source_image.px[q][ch] <= v
    /\ \E q \in S : v <= source_image.px[q][ch]

(* C29: blurring never produces an out-of-range or extrapolated channel    *)
(* value: for every pixel of the region and each channel, the averaged     *)
(* value the box loop or the motion loop computes lies between the minimum *)
(* and the maximum of that channel over the in-bounds samples of the       *)
(* window of the pixel, hence in [0, 255].                                 *)
C29_AverageWithinSampleRange ==
    (pc = "loop" /\ processed_pixels > 0) =>
        \A ch \in 1 .. 4 :
            /\ Between(LastWritten[ch], SamplesOf(LastPixel), ch)
            /\ 0 <= LastWritten[ch] /\ LastWritten[ch] <= 255

\* a motion average at the largest radius that is strictly inside the range of its samples
C29_Witness ==
    /\ pc = "loop" /\ processed_pixels > 0
    /\ blur_type = "motion" /\ ClampedRadius = 20
    /\ \E ch \in 1 .. 4 :
          /\ \E q \in SamplesOf(LastPixel) : source_image.px[q][ch] < LastWritten[ch]
          /\ \E q \in SamplesOf(LastPixel) : LastWritten[ch] < source_image.px[q][ch]

\* the blur type has a pixel loop
Averaging == IsBox(blur_type) \/ blur_type = "motion"

(* C30: for every pixel of a non-degenerate clamped region the sample      *)
(* count of its window is at least 1, the pixel itself being in bounds, so *)
(* that the guard count > 0 always holds and nothing is divided by zero;   *)
(* and every pixel of the temporary buffer of the region has been written  *)
(* with the average of its window before the buffer is drawn on the result.*)
C30_EveryRegionPixelWritten ==
    /\ (pc = "loop" /\ processed_pixels > 0) =>
           /\ count >= 1
           /\ LastPixel \in samples
           /\ LastWritten = Mean(SamplesOf(LastPixel))
    /\ (pc = "draw" /\ Averaging) =>
           /\ processed_pixels = ClampedRegion.w * ClampedRegion.h
           /\ DOMAIN temp_blur.px = Coords(ClampedRegion.w, ClampedRegion.h)
           /\ \A p \in RegionCoords :
                  temp_blur.px[<<p[1] - ClampedRegion.x, p[2] - ClampedRegion.y>>]
                      = Mean(SamplesOf(p))

\* the loops have filled a buffer that reaches the right and the lower edge of the
\* image and holds no pixel of the initial transparent fill
C30_Witness ==
    /\ pc = "draw" /\ Averaging /\ ~Degenerate
    /\ ClampedRegion.x + ClampedRegion.w = source_image.w
    /\ ClampedRegion.y + ClampedRegion.h = source_image.h
    /\ \A p \in DOMAIN temp_blur.px : temp_blur.px[p] # Transparent
    /\ \E p \in RegionCoords :
          temp_blur.px[<<p[1] - ClampedRegion.x, p[2] - ClampedRegion.y>>] # source_image.px[p]

====
